---- MODULE Spec2Model ----
(***************************************************************************)
(* Model of app.py, a Streamlit live-quiz application.                     *)
(*                                                                         *)
(* One Quiz object (one PIN) is shared by the presenter's script thread    *)
(* and by the script threads of the student browser sessions.  mgr.get     *)
(* returns the Quiz object itself, not a copy, so every attribute write is *)
(* immediately visible to the other threads and mgr.update stores the same *)
(* object back: it changes nothing.                                        *)
(*                                                                         *)
(* The presenter's handlers run in the single presenter script thread and  *)
(* are straight-line assignment sequences: each is one action.  A student  *)
(* script run is split at each of its reads and writes of the shared Quiz, *)
(* because student runs of different browser sessions interleave with each *)
(* other and with the presenter; the label of a step is the source line it *)
(* is about to execute.                                                    *)
(*                                                                         *)
(* Spec is the presenter with one student session, SpecRace two student    *)
(* sessions typing the same name on a quiz the presenter fills, starts and *)
(* stops, SpecClock the presenter and the clock.  SpecPanel is the         *)
(* presenter's live panel under a running clock, SpecBoard the panel's     *)
(* ranking over the score dicts a quiz can hold, SpecManager the teacher   *)
(* sessions that create quizzes in the QuizManager registry.               *)
(*                                                                         *)
(* time.time() is a float: the clock counts ticks of 1/TicksPerSecond      *)
(* second, and int() truncates toward zero.                                *)
(***************************************************************************)
EXTENDS Integers, Sequences, FiniteSets, TLC

\* ---------------------------------------------------------------- bounds
MaxQuestions == 2      \* questions the presenter adds before a clear
MaxTime      == 14     \* last clock tick
MaxRecords   == 1      \* stored answer records beyond which no run starts
MaxScore     == 1      \* score beyond which no run starts
MaxPins      == 2      \* size of the PIN space, 9000 in random.randint
MaxPoints    == 2      \* largest score on a ranking

TicksPerSecond == 2    \* resolution of the clock

\* ---------------------------------------------------------------- inputs
Sessions == {"s1", "s2"}          \* student browser sessions
Names    == {"ana"}               \* non-empty names typed by students
NameInputs == Names \cup {""}     \* content of the "Tu nombre" text input
Texts    == {"", "x"}             \* content of a text widget
\* the five text widgets of the question form, at most one left empty
FormInputs ==
    {f \in [{"qtext", "A", "B", "C", "D"} -> Texts] :
        Cardinality({k \in DOMAIN f : f[k] = ""}) <= 1}
Options  == {"A", "B", "C", "D"}  \* selectbox / radio options
CorrectInputs == {"A", "B"}       \* selectbox values the presenter picks
None     == "None"
ChoiceInputs == {"A", None}      \* radio value when the run starts

TimeInputs == {5, 10}             \* "Segundos por pregunta" values typed
Teachers == {"t1", "t2"}          \* teacher browser sessions
FirstPin == 1000                  \* random.randint(1000, 9999)
Pins     == FirstPin .. (FirstPin + MaxPins - 1)
BoardNames == {"Ana", "Bea", "Caleb"}   \* names on a ranking
\* the code points of each name, as Python compares strings
CodePoints ==
    [n \in BoardNames |->
        CASE n = "Ana"   -> <<65, 110, 97>>
          [] n = "Bea"   -> <<66, 101, 97>>
          [] n = "Caleb" -> <<67, 97, 108, 101, 98>>]

NoRow == [qid |-> 0, text |-> "", A |-> "", B |-> "", C |-> "", D |-> "",
          correct |-> ""]

VARIABLES
    quiz,   \* the shared Quiz object
    now,    \* time.time()
    ss,     \* st.session_state of each student session
    pc,     \* position of each student script run
    loc,    \* locals of each student script run
    rejected, \* the presenter handler invoked last, if its guard failed
    mgr,    \* the QuizManager: its quizzes dict and the holder of its lock
    teacher, \* each teacher session: position, local pin, active_pin
    panel   \* what the presenter's live panel shows

vars == <<quiz, now, ss, pc, loc, rejected, mgr, teacher, panel>>

\* ------------------------------------------------------- dict operations
Get(d, k, default) == IF k \in DOMAIN d THEN d[k] ELSE default

Put(d, k, v) == [x \in (DOMAIN d) \cup {k} |-> IF x = k THEN v ELSE d[x]]

SetDefault(d, k, v) == IF k \in DOMAIN d THEN d ELSE Put(d, k, v)

EmptyDict == [x \in {} |-> 0]

\* ------------------------------------------------------------ dataclasses
Question(qid, text, A, B, C, D, correct) ==
    [qid |-> qid, text |-> text, A |-> A, B |-> B, C |-> C, D |-> D,
     correct |-> correct]

Quiz == [questions |-> <<>>, participants |-> <<>>, responses |-> EmptyDict,
         scores |-> EmptyDict, started |-> FALSE, current_q |-> 0,
         reveal |-> FALSE, started_at |-> 0, time_per_q |-> 20]

NoPanel == [shown |-> FALSE, left |-> 0,
            counts |-> [k \in Options |-> 0], sorted_scores |-> <<>>,
            exception |-> "none"]

NoPin == <<>>     \* None, where a PIN string is expected

InitTeacher == [pc |-> "idle", pin |-> NoPin, active_pin |-> NoPin]

InitLoc == [absent |-> FALSE, name |-> "", clicked |-> FALSE, choice |-> None,
            qrow |-> NoRow, correct_flag |-> FALSE, tmp |-> 0]

Init ==
    /\ quiz = Quiz
    /\ now = 1
    /\ ss = [s \in Sessions |-> [joined |-> FALSE, student_name |-> ""]]
    /\ pc = [s \in Sessions |-> "idle"]
    /\ loc = [s \in Sessions |-> InitLoc]
    /\ rejected = "none"
    /\ mgr = [quizzes |-> EmptyDict, lock |-> "free"]
    /\ teacher = [t \in Teachers |-> InitTeacher]
    /\ panel = NoPanel

Tick ==
    /\ now < MaxTime
    /\ now' = now + 1
    /\ UNCHANGED <<quiz, ss, pc, loc, rejected, mgr, teacher, panel>>

\* ------------------------------------------------------ presenter handlers
AllFilledButD(qtext, A, B, C, D) ==
    qtext # "" /\ A # "" /\ B # "" /\ C # ""

AllFilled(qtext, A, B, C, D) ==
    qtext # "" /\ A # "" /\ B # "" /\ C # "" /\ D # ""

NextQidNoIncrement(qs) == IF qs # <<>> THEN qs[Len(qs)].qid ELSE 1

NextQid(qs) == IF qs # <<>> THEN qs[Len(qs)].qid + 1 ELSE 1

AddQuestion(qtext, A, B, C, D, correct) ==
    /\ Len(quiz.questions) < MaxQuestions
    /\ IF AllFilled(qtext, A, B, C, D)
       THEN /\ quiz' = [quiz EXCEPT !.questions =
                   Append(@, Question(NextQid(@), qtext, A, B, C, D, correct))]
            /\ rejected' = "none"
       ELSE /\ quiz' = quiz
            /\ rejected' = "add_question"
    /\ UNCHANGED <<now, ss, pc, loc, mgr, teacher, panel>>

ClearQuizKeepsScores ==
    /\ quiz' = [quiz EXCEPT !.questions = <<>>, !.responses = EmptyDict,
                            !.started = FALSE, !.current_q = 0,
                            !.reveal = FALSE, !.started_at = 0]
    /\ rejected' = "none"
    /\ UNCHANGED <<now, ss, pc, loc, mgr, teacher, panel>>

ClearQuizKeepsIndex ==
    /\ quiz' = [quiz EXCEPT !.questions = <<>>, !.responses = EmptyDict,
                            !.scores = EmptyDict, !.started = FALSE,
                            !.reveal = FALSE, !.started_at = 0]
    /\ rejected' = "none"
    /\ UNCHANGED <<now, ss, pc, loc, mgr, teacher, panel>>

ClearQuiz ==
    /\ quiz' = [quiz EXCEPT !.questions = <<>>, !.responses = EmptyDict,
                            !.scores = EmptyDict, !.started = FALSE,
                            !.current_q = 0, !.reveal = FALSE,
                            !.started_at = 0]
    /\ rejected' = "none"
    /\ UNCHANGED <<now, ss, pc, loc, mgr, teacher, panel>>

StartGuardAlways(qz) == TRUE

StartGuard(qz) == qz.questions # <<>>

start_quiz ==
    /\ IF StartGuard(quiz)
       THEN /\ quiz' = [quiz EXCEPT !.started = TRUE, !.current_q = 1,
                                    !.reveal = FALSE, !.started_at = now,
                                    !.responses = Put(@, 1, <<>>)]
            /\ rejected' = "none"
       ELSE /\ quiz' = quiz
            /\ rejected' = "start_quiz"
    /\ UNCHANGED <<now, ss, pc, loc, mgr, teacher, panel>>

NextGuardInclusive(qz) == qz.current_q <= Len(qz.questions)

NextGuard(qz) == qz.current_q < Len(qz.questions)

next_q ==
    /\ IF NextGuard(quiz)
       THEN /\ quiz' = [quiz EXCEPT !.current_q = @ + 1, !.reveal = FALSE,
                                    !.started_at = now,
                                    !.responses =
                                        SetDefault(@, quiz.current_q + 1, <<>>)]
            /\ rejected' = "none"
       ELSE /\ quiz' = quiz
            /\ rejected' = "next_q"
    /\ UNCHANGED <<now, ss, pc, loc, mgr, teacher, panel>>

PrevGuard(qz) == qz.current_q > 1

prev_q ==
    /\ IF PrevGuard(quiz)
       THEN /\ quiz' = [quiz EXCEPT !.current_q = @ - 1, !.reveal = FALSE,
                                    !.started_at = now]
            /\ rejected' = "none"
       ELSE /\ quiz' = quiz
            /\ rejected' = "prev_q"
    /\ UNCHANGED <<now, ss, pc, loc, mgr, teacher, panel>>

toggle_reveal ==
    /\ quiz' = [quiz EXCEPT !.reveal = ~@]
    /\ rejected' = "none"
    /\ UNCHANGED <<now, ss, pc, loc, mgr, teacher, panel>>

stop_quiz_resets_scores ==
    /\ quiz' = [quiz EXCEPT !.started = FALSE, !.current_q = 0,
                            !.reveal = FALSE, !.started_at = 0,
                            !.scores = EmptyDict]
    /\ rejected' = "none"
    /\ UNCHANGED <<now, ss, pc, loc, mgr, teacher, panel>>

stop_quiz ==
    /\ quiz' = [quiz EXCEPT !.started = FALSE, !.current_q = 0,
                            !.reveal = FALSE, !.started_at = 0]
    /\ rejected' = "none"
    /\ UNCHANGED <<now, ss, pc, loc, mgr, teacher, panel>>

Presenter ==
    \/ \E f \in FormInputs, correct \in CorrectInputs :
           AddQuestion(f.qtext, f.A, f.B, f.C, f.D, correct)
    \/ ClearQuiz
    \/ start_quiz
    \/ next_q
    \/ prev_q
    \/ toggle_reveal
    \/ stop_quiz

\* ------------------------------------------------------ student script runs
TotalRecords(qz) ==
    LET RECURSIVE Sum(_)
        Sum(S) == IF S = {} THEN 0
                  ELSE LET k == CHOOSE x \in S : TRUE
                       IN Len(qz.responses[k]) + Sum(S \ {k})
    IN Sum(DOMAIN qz.responses)

WithinBounds(qz) ==
    /\ TotalRecords(qz) < MaxRecords
    /\ \A n \in DOMAIN qz.scores : qz.scores[n] < MaxScore

Goto(s, label) == pc' = [pc EXCEPT ![s] = label]

EndRun(s) ==
    /\ pc' = [pc EXCEPT ![s] = "idle"]
    /\ loc' = [loc EXCEPT ![s] = InitLoc]

Raise(s, exception) ==
    /\ pc' = [pc EXCEPT ![s] = exception]
    /\ loc' = [loc EXCEPT ![s] = InitLoc]

\* "Unirme" clicked: lines 279-287, up to the membership test
ClickJoin(s, name) ==
    /\ pc[s] = "idle"
    /\ IF name = ""
       THEN /\ Goto(s, "l295")
            /\ loc' = [loc EXCEPT ![s] = InitLoc]
       ELSE /\ Goto(s, "l288")
            /\ loc' = [loc EXCEPT ![s] = [InitLoc EXCEPT
                           !.name = name,
                           !.absent = \A i \in 1..Len(quiz.participants) :
                                          quiz.participants[i] # name]]
    /\ UNCHANGED <<quiz, now, ss, rejected, mgr, teacher, panel>>

\* lines 288-293: the append, the score entry and the session state
l288(s) ==
    /\ pc[s] = "l288"
    /\ quiz' = IF loc[s].absent
               THEN [quiz EXCEPT !.participants = Append(@, loc[s].name),
                                 !.scores = SetDefault(@, loc[s].name, 0)]
               ELSE quiz
    /\ ss' = [ss EXCEPT ![s] = [joined |-> TRUE, student_name |-> loc[s].name]]
    /\ Goto(s, "l295")
    /\ loc' = [loc EXCEPT ![s] = InitLoc]
    /\ UNCHANGED <<now, rejected, mgr, teacher, panel>>

\* "Enviar respuesta" clicked with the radio at choice (None: nothing chosen)
ClickSubmit(s, choice) ==
    /\ pc[s] = "idle"
    /\ ss[s].joined
    /\ WithinBounds(quiz)
    /\ Goto(s, "l295")
    /\ loc' = [loc EXCEPT ![s] = [InitLoc EXCEPT !.clicked = TRUE,
                                                 !.choice = choice]]
    /\ UNCHANGED <<quiz, now, ss, rejected, mgr, teacher, panel>>

\* lines 295-304: joined? started?
l295(s) ==
    /\ pc[s] = "l295"
    /\ IF ss[s].joined /\ quiz.started
       THEN /\ Goto(s, "l307")
            /\ loc' = [loc EXCEPT ![s].name = ss[s].student_name]
       ELSE EndRun(s)
    /\ UNCHANGED <<quiz, now, ss, rejected, mgr, teacher, panel>>

\* line 307: next(q for q in quiz.questions if q.qid == quiz.current_q)
Matching(qz) == {i \in 1..Len(qz.questions) : qz.questions[i].qid = qz.current_q}

l307(s) ==
    /\ pc[s] = "l307"
    /\ IF Matching(quiz) # {}
       THEN /\ Goto(s, "l315")
            /\ loc' = [loc EXCEPT ![s].qrow =
                   quiz.questions[CHOOSE i \in Matching(quiz) :
                                      \A j \in Matching(quiz) : i <= j]]
       ELSE Raise(s, "StopIteration")
    /\ UNCHANGED <<quiz, now, ss, rejected, mgr, teacher, panel>>

\* lines 313-318
Answered(qz, name) ==
    LET rs == Get(qz.responses, qz.current_q, <<>>)
    IN \E i \in 1..Len(rs) : rs[i].name = name

\* lines 313-329: the "has answered?" scan, the button and the flag
l315(s) ==
    /\ pc[s] = "l315"
    /\ IF ~Answered(quiz, loc[s].name) /\ loc[s].clicked /\ loc[s].choice # None
       THEN /\ Goto(s, "l331")
            /\ loc' = [loc EXCEPT ![s].correct_flag =
                                      (loc[s].choice = loc[s].qrow.correct)]
       ELSE EndRun(s)
    /\ UNCHANGED <<quiz, now, ss, rejected, mgr, teacher, panel>>

\* line 331
l331(s) ==
    /\ pc[s] = "l331"
    /\ quiz' = [quiz EXCEPT !.responses = SetDefault(@, quiz.current_q, <<>>)]
    /\ Goto(s, "l332")
    /\ UNCHANGED <<now, ss, loc, rejected, mgr, teacher, panel>>

\* lines 332-337
l332(s) ==
    /\ pc[s] = "l332"
    /\ IF quiz.current_q \in DOMAIN quiz.responses
       THEN /\ quiz' = [quiz EXCEPT !.responses[quiz.current_q] =
                   Append(@, [name |-> loc[s].name, answer |-> loc[s].choice,
                              correct |-> loc[s].correct_flag])]
            /\ IF loc[s].correct_flag
               THEN Goto(s, "l338") /\ UNCHANGED loc
               ELSE EndRun(s)
       ELSE /\ Raise(s, "KeyError")
            /\ UNCHANGED quiz
    /\ UNCHANGED <<now, ss, rejected, mgr, teacher, panel>>

\* line 338, right-hand side: quiz.scores.get(name, 0) + 1
l338(s) ==
    /\ pc[s] = "l338"
    /\ loc' = [loc EXCEPT ![s].tmp = Get(quiz.scores, loc[s].name, 0) + 1]
    /\ Goto(s, "l338_store")
    /\ UNCHANGED <<quiz, now, ss, rejected, mgr, teacher, panel>>

\* line 338, the store into quiz.scores[name]
l338_store(s) ==
    /\ pc[s] = "l338_store"
    /\ quiz' = [quiz EXCEPT !.scores = Put(@, loc[s].name, loc[s].tmp)]
    /\ EndRun(s)
    /\ UNCHANGED <<now, ss, rejected, mgr, teacher, panel>>

\* an uncaught exception ends the script run
Traceback(s) ==
    /\ pc[s] \in {"StopIteration", "KeyError"}
    /\ EndRun(s)
    /\ UNCHANGED <<quiz, now, ss, rejected, mgr, teacher, panel>>

Student(s, names) ==
    \/ \E name \in names : ClickJoin(s, name)
    \/ l288(s)
    \/ \E choice \in ChoiceInputs : ClickSubmit(s, choice)
    \/ l295(s)
    \/ l307(s)
    \/ l315(s)
    \/ l331(s)
    \/ l332(s)
    \/ l338(s)
    \/ l338_store(s)
    \/ Traceback(s)

\* ------------------------------------------------ presenter's live panel
\* line 100: the "Segundos por pregunta" number input
SetTimePerQ(secs) ==
    /\ quiz' = [quiz EXCEPT !.time_per_q = secs]
    /\ rejected' = "none"
    /\ UNCHANGED <<now, ss, pc, loc, mgr, teacher, panel>>

Max(a, b) == IF a >= b THEN a ELSE b

\* int(x) of a float x given in ticks: the whole seconds, toward zero
IntOf(x) == IF x >= 0 THEN x \div TicksPerSecond
                      ELSE -((-x) \div TicksPerSecond)

RemainingSecondsUnclamped(qz, t) ==
    IntOf(qz.time_per_q * TicksPerSecond - (t - qz.started_at))

\* lines 199 and 310
RemainingSeconds(qz, t) ==
    Max(IntOf(qz.time_per_q * TicksPerSecond - (t - qz.started_at)), 0)

\* lines 202-208
Tally(qz) ==
    LET df == Get(qz.responses, qz.current_q, <<>>)
    IN [k \in Options |-> Cardinality({i \in 1..Len(df) : df[i].answer = k})]

\* a < b on Python strings
StrLess(a, b) ==
    LET x == CodePoints[a]
        y == CodePoints[b]
    IN \/ \E i \in 1..Len(x) :
              /\ i <= Len(y)
              /\ \A j \in 1..(i - 1) : x[j] = y[j]
              /\ x[i] < y[i]
       \/ /\ Len(x) < Len(y)
          /\ \A j \in 1..Len(x) : x[j] = y[j]

\* a < b on Python tuples (int, str)
KeyLess(a, b) == \/ a[1] < b[1]
                 \/ a[1] = b[1] /\ StrLess(a[2], b[2])

SortKeyAscending(kv) == <<kv[2], kv[1]>>

\* line 217: key=lambda kv: (-kv[1], kv[0])
SortKey(kv) == <<-kv[2], kv[1]>>

Items(d) == {<<k, d[k]>> : k \in DOMAIN d}

RECURSIVE SortedItems(_)
SortedItems(S) ==
    IF S = {} THEN <<>>
    ELSE LET least == CHOOSE x \in S :
                 \A y \in S \ {x} : KeyLess(SortKey(x), SortKey(y))
         IN <<least>> \o SortedItems(S \ {least})

\* lines 215-217
Leaderboard(scores) ==
    IF scores = EmptyDict THEN <<>> ELSE SortedItems(Items(scores))

\* lines 181-218
RenderPanel ==
    /\ IF ~quiz.started
       THEN panel' = NoPanel
       ELSE IF Matching(quiz) = {}
       THEN panel' = [NoPanel EXCEPT !.exception = "StopIteration"]
       ELSE panel' = [shown |-> TRUE,
                      left |-> RemainingSeconds(quiz, now),
                      counts |-> Tally(quiz),
                      sorted_scores |-> Leaderboard(quiz.scores),
                      exception |-> "none"]
    /\ UNCHANGED <<quiz, now, ss, pc, loc, rejected, mgr, teacher>>

\* ------------------------------------------------------------ QuizManager
\* f"{n}": the four decimal digits of n
Format(n) == <<n \div 1000, (n \div 100) % 10, (n \div 10) % 10, n % 10>>

PinFreeAlways(quizzes, pin) == TRUE

\* line 53: pin not in self.quizzes
PinFree(quizzes, pin) == pin \notin DOMAIN quizzes

TeacherGoto(t, label) == teacher' = [teacher EXCEPT ![t].pc = label]

\* line 92: the "Generar PIN" button
ClickGenerar(t) ==
    /\ teacher[t].pc = "idle"
    /\ TeacherGoto(t, "l50")
    /\ UNCHANGED <<quiz, now, ss, pc, loc, rejected, mgr, panel>>

\* line 50: with self.lock
l50(t) ==
    /\ teacher[t].pc = "l50"
    /\ mgr.lock = "free"
    /\ mgr' = [mgr EXCEPT !.lock = t]
    /\ TeacherGoto(t, "l52")
    /\ UNCHANGED <<quiz, now, ss, pc, loc, rejected, panel>>

\* line 52: pin = f"{random.randint(1000,9999)}"
l52(t) ==
    /\ teacher[t].pc = "l52"
    /\ \E n \in Pins :
           teacher' = [teacher EXCEPT ![t].pc = "l53", ![t].pin = Format(n)]
    /\ UNCHANGED <<quiz, now, ss, pc, loc, rejected, mgr, panel>>

\* lines 53-55 and 93: store a new Quiz, return, release the lock
l53(t) ==
    /\ teacher[t].pc = "l53"
    /\ IF PinFree(mgr.quizzes, teacher[t].pin)
       THEN /\ mgr' = [quizzes |-> Put(mgr.quizzes, teacher[t].pin, Quiz),
                       lock |-> "free"]
            /\ teacher' = [teacher EXCEPT ![t].pc = "idle", ![t].pin = NoPin,
                                          ![t].active_pin = teacher[t].pin]
       ELSE /\ TeacherGoto(t, "l52")
            /\ UNCHANGED mgr
    /\ UNCHANGED <<quiz, now, ss, pc, loc, rejected, panel>>

\* line 98: quiz = mgr.get(pin)
l98(t) ==
    /\ teacher[t].pc = "idle"
    /\ teacher[t].active_pin # NoPin
    /\ mgr.lock = "free"
    /\ TeacherGoto(t, "l100")
    /\ UNCHANGED <<quiz, now, ss, pc, loc, rejected, mgr, panel>>

\* line 100: quiz.time_per_q = st.number_input(...), on the stored object
l100(t, secs) ==
    /\ teacher[t].pc = "l100"
    /\ mgr' = [mgr EXCEPT !.quizzes[teacher[t].active_pin].time_per_q = secs]
    /\ TeacherGoto(t, "l101")
    /\ UNCHANGED <<quiz, now, ss, pc, loc, rejected, panel>>

\* line 101: mgr.update(pin, quiz) stores the same object back
l101(t) ==
    /\ teacher[t].pc = "l101"
    /\ mgr.lock = "free"
    /\ TeacherGoto(t, "idle")
    /\ UNCHANGED <<quiz, now, ss, pc, loc, rejected, mgr, panel>>

Teacher(t) ==
    \/ ClickGenerar(t)
    \/ l50(t)
    \/ l52(t)
    \/ l53(t)
    \/ l98(t)
    \/ \E secs \in TimeInputs : l100(t, secs)
    \/ l101(t)

\* -------------------------------------------------------- specifications
\* The presenter and one student session, within one clock instant.
Next == Presenter \/ Student("s1", NameInputs)

Spec == Init /\ [][Next]_vars

\* The presenter and the clock.
NextClock == Tick \/ Presenter

SpecClock == Init /\ [][NextClock]_vars

\* Two student sessions on a quiz the presenter fills, starts and stops.
PresenterRace ==
    \/ \E correct \in CorrectInputs :
           AddQuestion("x", "x", "x", "x", "x", correct)
    \/ start_quiz
    \/ stop_quiz

NextRace == PresenterRace \/ \E s \in Sessions : Student(s, Names)

SpecRace == Init /\ [][NextRace]_vars

\* The presenter's panel on a quiz of one question, under a running clock.
PresenterPanel ==
    \/ AddQuestion("x", "x", "x", "x", "x", "A")
    \/ \E secs \in TimeInputs : SetTimePerQ(secs)
    \/ start_quiz
    \/ next_q
    \/ prev_q
    \/ stop_quiz
    \/ RenderPanel

NextPanel == Tick \/ PresenterPanel

SpecPanel == Init /\ [][NextPanel]_vars

\* The panel of a started quiz, for every score dict within the bounds.
ScoreDicts == UNION {[S -> 0..MaxPoints] : S \in SUBSET BoardNames}

InitBoard ==
    /\ quiz \in {[Quiz EXCEPT
                      !.questions = <<Question(1, "x", "x", "x", "x", "x", "A")>>,
                      !.participants = <<"Ana", "Bea", "Caleb">>,
                      !.responses = Put(EmptyDict, 1, <<>>),
                      !.scores = sc, !.started = TRUE, !.current_q = 1,
                      !.started_at = 1] : sc \in ScoreDicts}
    /\ now = 1
    /\ ss = [s \in Sessions |-> [joined |-> FALSE, student_name |-> ""]]
    /\ pc = [s \in Sessions |-> "idle"]
    /\ loc = [s \in Sessions |-> InitLoc]
    /\ rejected = "none"
    /\ mgr = [quizzes |-> EmptyDict, lock |-> "free"]
    /\ teacher = [t \in Teachers |-> InitTeacher]
    /\ panel = NoPanel

NextBoard == RenderPanel

SpecBoard == InitBoard /\ [][NextBoard]_vars

\* The teacher sessions that create and configure quizzes.
NextManager == \E t \in Teachers : Teacher(t)

SpecManager == Init /\ [][NextManager]_vars
\* ------------------------------------------------------------- properties
Idle == \A s \in Sessions : pc[s] = "idle"

NamesOf(rs) == {rs[i].name : i \in 1..Len(rs)}

RecordsOf(qz, q, name) ==
    {i \in 1..Len(qz.responses[q]) : qz.responses[q][i].name = name}

\* C1: for every question id q and participant name n, the responses
\* recorded for q hold at most one record with name n, also when two
\* submissions for the same (q, n) run concurrently.
C1_OneRecordPerPair ==
    \A q \in DOMAIN quiz.responses : \A n \in NamesOf(quiz.responses[q]) :
        Cardinality(RecordsOf(quiz, q, n)) <= 1

RECURSIVE CorrectCount(_, _, _)
CorrectCount(qz, keys, name) ==
    IF keys = {} THEN 0
    ELSE LET q == CHOOSE k \in keys : TRUE
         IN Cardinality({i \in RecordsOf(qz, q, name) :
                             qz.responses[q][i].correct})
            + CorrectCount(qz, keys \ {q}, name)

\* C2: between operations (no script run in progress), each participant's
\* score equals the number of stored answer records of that participant,
\* over all questions, whose correct flag is true.
C2_ScoreIsCorrectCount ==
    Idle => \A n \in Names :
                Get(quiz.scores, n, 0)
                    = CorrectCount(quiz, DOMAIN quiz.responses, n)

\* C3: start_quiz on a quiz without questions changes nothing: the quiz is
\* still not started, its current question is still 0 and no answer list is
\* opened.
C3_StartEmptyRejected ==
    [][(quiz.questions = <<>> /\ start_quiz)
          => /\ quiz' = quiz
             /\ ~quiz'.started
             /\ quiz'.current_q = 0
             /\ DOMAIN quiz'.responses = DOMAIN quiz.responses]_vars

C3_Witness ==
    /\ rejected = "start_quiz"
    /\ quiz.questions = <<>>
    /\ quiz.participants # <<>>

\* C4: start_quiz on a quiz that is already started changes nothing: the
\* current question, the reveal flag, the start time and the answers of the
\* first question are kept.
C4_StartRunningRejected ==
    [][(quiz.started /\ start_quiz) => quiz' = quiz]_vars

LastQid(qz) == qz.questions[Len(qz.questions)].qid

\* C5: next_q while the current question is the last question changes
\* nothing (current question, reveal flag, start time, answers).
C5_NextAtLastRejected ==
    [][(quiz.questions # <<>> /\ quiz.current_q = LastQid(quiz) /\ next_q)
          => quiz' = quiz]_vars

C5_Witness ==
    /\ rejected = "next_q"
    /\ quiz.started
    /\ Len(quiz.questions) = 2
    /\ quiz.current_q = LastQid(quiz)
    /\ Get(quiz.responses, 1, <<>>) # <<>>

\* C6: next_q and prev_q on a quiz that is not started change nothing, so
\* the current question stays 0 while the quiz is not started.
C6_NavigationWhenIdleRejected ==
    [][(~quiz.started /\ (next_q \/ prev_q))
          => (quiz' = quiz /\ quiz'.current_q = 0)]_vars

\* C7: the current question is 0 or the id of a question in the list,
\* whatever handlers the presenter has invoked.
C7_CurrentIsZeroOrQuestion ==
    \/ quiz.current_q = 0
    \/ \E i \in 1..Len(quiz.questions) : quiz.questions[i].qid = quiz.current_q

C7_Witness ==
    /\ quiz.current_q = 2
    /\ Len(quiz.questions) = 2
    /\ quiz.started

\* C8: the stored questions carry the ids 1, 2, ..., n in insertion order,
\* without duplicate or gap, also for questions added after a clear.
C8_IdsAreSequential ==
    \A i \in 1..Len(quiz.questions) : quiz.questions[i].qid = i

C8_Witness ==
    /\ Len(quiz.questions) = 2
    /\ quiz.questions[2].qid = 2

WellFormed(q) ==
    /\ q.text # "" /\ q.A # "" /\ q.B # "" /\ q.C # "" /\ q.D # ""
    /\ q.correct \in Options

IncompleteForms == {f \in FormInputs : \E k \in DOMAIN f : f[k] = ""}

\* C9: adding a question with an empty text or an empty option leaves the
\* quiz unchanged, and every stored question has a non-empty text, non-empty
\* options and a correct option among A, B, C, D.
C9_AddQuestionValidates ==
    [][/\ (rejected' = "add_question" /\ pc' = pc) =>
             \A f \in IncompleteForms, correct \in CorrectInputs :
                 AddQuestion(f.qtext, f.A, f.B, f.C, f.D, correct)
                     => quiz' = quiz
       /\ \A i \in 1..Len(quiz'.questions) : WellFormed(quiz'.questions[i])
      ]_vars

C9_Witness ==
    /\ rejected = "add_question"
    /\ quiz.questions # <<>>

\* C10: a name appears at most once in the roster, however many sessions
\* join with it and however their joins interleave.
C10_NameJoinedOnce ==
    \A i \in 1..Len(quiz.participants) : \A j \in 1..Len(quiz.participants) :
        quiz.participants[i] = quiz.participants[j] => i = j

\* C11: a submission that takes effect while the quiz is not started is
\* rejected: the step that stores the record and the step that stores the
\* score leave the responses and the scores as they were.
C11_SubmitWhenIdleRejected ==
    [][(~quiz.started /\ \E s \in Sessions : l332(s) \/ l338_store(s))
           => /\ quiz'.responses = quiz.responses
              /\ quiz'.scores = quiz.scores
      ]_vars

\* C13: stopping a started quiz makes it not started, sets the current
\* question to 0 and hides the reveal, and leaves the questions, the roster,
\* the responses and the scores exactly as they were.
C13_StopKeepsData ==
    [][(quiz.started /\ stop_quiz)
           => /\ ~quiz'.started
              /\ quiz'.current_q = 0
              /\ ~quiz'.reveal
              /\ quiz'.questions = quiz.questions
              /\ quiz'.participants = quiz.participants
              /\ quiz'.responses = quiz.responses
              /\ quiz'.scores = quiz.scores
      ]_vars

C13_Witness ==
    /\ ~quiz.started
    /\ quiz.current_q = 0
    /\ quiz.questions # <<>>
    /\ Get(quiz.scores, "ana", 0) = 1
    /\ Get(quiz.responses, 1, <<>>) # <<>>

\* C14: after the quiz is cleared the questions and the responses are
\* empty, the quiz is not started, the current question is 0, every name
\* that had joined is still in the roster, and each of them has score 0.
C14_ClearKeepsRoster ==
    [][ClearQuiz
           => /\ quiz'.questions = <<>>
              /\ quiz'.responses = EmptyDict
              /\ ~quiz'.started
              /\ quiz'.current_q = 0
              /\ \A i \in 1..Len(quiz.participants) :
                     /\ \E j \in 1..Len(quiz'.participants) :
                            quiz'.participants[j] = quiz.participants[i]
                     /\ Get(quiz'.scores, quiz.participants[i], 0) = 0
      ]_vars

C14_Witness ==
    /\ quiz.questions = <<>>
    /\ quiz.participants = <<"ana">>
    /\ quiz.scores = EmptyDict
    /\ pc["s1"] = "l315"

QuestionOf(qz, q) ==
    qz.questions[CHOOSE i \in 1..Len(qz.questions) : qz.questions[i].qid = q]

Qids(qz) == {qz.questions[i].qid : i \in 1..Len(qz.questions)}

\* C17: every stored record's correct flag says whether its answer is the
\* correct option of the question it is stored under, also when the
\* presenter moves to another question while the submission is under way.
C17_FlagMatchesStoredQuestion ==
    \A q \in DOMAIN quiz.responses \cap Qids(quiz) :
        \A i \in 1..Len(quiz.responses[q]) :
            quiz.responses[q][i].correct
                = (quiz.responses[q][i].answer = QuestionOf(quiz, q).correct)

\* C18: every key of the responses is the id of a question the quiz holds;
\* there is no key 0 and no key of a cleared question.
C18_ResponseKeysAreQuestions == DOMAIN quiz.responses \subseteq Qids(quiz)

\* C20: once a script run has seen the quiz started, its lookup of the
\* current question finds a question: no run ends in StopIteration.
C20_LookupNeverFails == \A s \in Sessions : pc[s] # "StopIteration"

\* C12: a new_pin call that returns gives a PIN that was not in the registry
\* before, that no other teacher session holds, and that maps to a fresh
\* Quiz afterwards; every PIN already in the registry keeps its quiz as it
\* was, also when the calls of two sessions overlap.
C12_NewPinIsFresh ==
    [][\A t \in Teachers :
           (teacher[t].pc = "l53" /\ teacher'[t].pc = "idle")
               => LET pin == teacher'[t].active_pin
                  IN /\ pin # NoPin
                     /\ pin \notin DOMAIN mgr.quizzes
                     /\ pin \in DOMAIN mgr'.quizzes
                     /\ mgr'.quizzes[pin] = Quiz
                     /\ \A p \in DOMAIN mgr.quizzes :
                            mgr'.quizzes[p] = mgr.quizzes[p]
                     /\ \A u \in Teachers \ {t} :
                            teacher'[u].active_pin # pin
      ]_vars

C12_Witness ==
    /\ teacher["t1"].active_pin # NoPin
    /\ teacher["t2"].active_pin # NoPin
    /\ teacher["t1"].active_pin # teacher["t2"].active_pin
    /\ mgr.quizzes[teacher["t1"].active_pin].time_per_q = 5
    /\ mgr.quizzes[teacher["t2"].active_pin] = Quiz

Exhausted(quizzes) == \A n \in Pins : ~PinFree(quizzes, Format(n))

\* C19: new_pin terminates: when every PIN of the PIN space is in use, the
\* call that tests a PIN returns and releases the lock, so that later get
\* and update calls can proceed.
C19_NewPinReturnsWhenExhausted ==
    [][\A t \in Teachers :
           (Exhausted(mgr.quizzes) /\ l53(t))
               => /\ mgr'.lock = "free"
                  /\ teacher'[t].pc = "idle"
      ]_vars

\* C15: the ranking shown lists every name of the scores dict exactly once,
\* each with its score; of two adjacent entries (n1, s1), (n2, s2) either
\* s1 > s2, or s1 = s2 and n1 < n2; it is empty when the dict is empty.
C15_LeaderboardOrdered ==
    panel.shown =>
        LET b == panel.sorted_scores
        IN /\ Len(b) = Cardinality(DOMAIN quiz.scores)
           /\ \A n \in DOMAIN quiz.scores :
                  \E i \in 1..Len(b) : b[i] = <<n, quiz.scores[n]>>
           /\ \A i \in 1..(Len(b) - 1) :
                  \/ b[i][2] > b[i + 1][2]
                  \/ b[i][2] = b[i + 1][2] /\ StrLess(b[i][1], b[i + 1][1])
           /\ quiz.scores = EmptyDict => b = <<>>

C15_Witness ==
    /\ panel.shown
    /\ panel.sorted_scores = <<<<"Bea", 2>>, <<"Ana", 1>>, <<"Caleb", 1>>>>

\* C16: the remaining seconds are never negative, whatever the time since
\* the question was shown, and they are time_per_q at the tick at which
\* start_quiz, next_q or prev_q has just taken effect.
C16_RemainingSeconds ==
    [][/\ RemainingSeconds(quiz', now') >= 0
       /\ panel'.left >= 0
       /\ (rejected' = "none" /\ (start_quiz \/ next_q \/ prev_q))
              => RemainingSeconds(quiz', now') = quiz'.time_per_q
      ]_vars

C16_Witness ==
    /\ panel.shown
    /\ panel.left = 0
    /\ quiz.started
    /\ now - quiz.started_at > (quiz.time_per_q + 1) * TicksPerSecond
====
